---- MODULE Spec2Model ----
(***************************************************************************)
(* `uv pip tree`: crates/uv/src/commands/pip/tree.rs.                      *)
(*                                                                         *)
(* pip_tree builds a DisplayDependencyGraph over the installed             *)
(* distributions (new), renders it depth first (render, visit) and writes  *)
(* the joined lines and the legends to standard output.  The recursion of  *)
(* visit is modelled with an explicit stack of frames; one step of the     *)
(* model is one call of visit or one return from it.                       *)
(***************************************************************************)
EXTENDS Integers, Sequences, FiniteSets, TLC

(***************************************************************************)
(* The bound of the model: the requirement records (requires_dist entries) *)
(* of all installed distributions together.                                *)
(***************************************************************************)
MaxEdges == 3

\* `depth: u8`: the widest depth limit the command line can pass.
U8Max == 255

\* Package names that occur in the environment (as installed distribution or
\* as the target of a requirement); installed ones are a prefix of NameOf.
NameOf == <<"a", "b", "c">>
PackageNames == {NameOf[i] : i \in 1..Len(NameOf)}
\* Extras a distribution may provide.
ExtraNames == {"x", "y"}

\* `extra: Option<String>`: None.
NoExtra == ""
\* `marker: Option<MarkerTree>`: None, and Some of a marker.  A marker is
\* modelled by what decides it when no environment is given: `env` says that
\* it tests the environment only (`sys_platform == "win32"`), `extras` are
\* the extras each of which satisfies it on its own (`extra == "x" or
\* extra == "y"` is {"x", "y"}).
None == [some |-> FALSE, env |-> FALSE, extras |-> {}]
Some(env, extras) == [some |-> TRUE, env |-> env, extras |-> extras]

VARIABLES
    site_packages,         \* the installed distributions, in iteration order
    depth, prune, no_dedupe,  \* the arguments kept by DisplayDependencyGraph
    dist_by_package_name,  \* name -> index into site_packages (0: no key)
    required_packages,     \* names required by at least one distribution
    pc,                    \* where pip_tree is: "new", "render", "done", "panic"
    root,                  \* render: index of the site_package the loop is at
    visited, path,         \* render's HashSet and the current root's Vec
    lines,                 \* render's result so far
    stack,                 \* the calls of visit that are expanding, outermost first
    call,                  \* the call of visit being entered (dist = 0: none)
    stdout, stderr, exit   \* what the process wrote, and how it ended

vars == <<site_packages, depth, prune, no_dedupe, dist_by_package_name,
          required_packages, pc, root, visited, path, lines, stack, call,
          stdout, stderr, exit>>

----------------------------------------------------------------------------
(***************************************************************************)
(* Helpers on sequences.                                                   *)
(***************************************************************************)
Range(s) == {s[i] : i \in 1..Len(s)}

Contains(s, x) == \E i \in 1..Len(s) : s[i] = x

\* Vec::pop
Pop(s) == IF Len(s) = 0 THEN s ELSE SubSeq(s, 1, Len(s) - 1)

----------------------------------------------------------------------------
(***************************************************************************)
(* The installed environment: the inputs of pip_tree.                      *)
(***************************************************************************)
\* A requirement record of requires_dist: target name and optional marker.
Requirement(n, m) == [name |-> n, marker |-> m]

\* MarkerTree::evaluate_optional_environment(None, extras): without an
\* environment every test of the environment holds, and only the extras
\* decide.
Evaluate(marker, extras) == marker.env \/ marker.extras \cap extras # {}

\* InstalledDist::metadata(): Err, or requires_dist and provides_extras.
Unreadable == [readable |-> FALSE, requires_dist |-> <<>>, provides_extras |-> <<>>]
Metadata(reqs, extras) ==
    [readable |-> TRUE, requires_dist |-> reqs, provides_extras |-> extras]

InstalledDist(n, v, m) == [name |-> n, version |-> v, metadata |-> m]

\* Sequences of n requirement lists that hold at most `budget` records in
\* all, each record drawn from R.
RECURSIVE RequirementLists(_, _, _)
RequirementLists(n, budget, R) ==
    IF n = 0 THEN {<<>>}
    ELSE UNION {
           {Append(s, r) : s \in RequirementLists(n - 1, budget - k, R),
                           r \in [1..k -> R]}
           : k \in 0..budget }

\* Environments without markers: up to Len(NameOf) distributions with
\* distinct names and any requirement graph over PackageNames (a name that
\* is not installed is a requirement without an installed distribution).
PlainRequirements == {Requirement(n, None) : n \in PackageNames}
PlainEnvironments ==
    UNION { { [i \in 1..n |-> InstalledDist(NameOf[i], i, Metadata(rs[i], <<>>))] :
                rs \in RequirementLists(n, MaxEdges, PlainRequirements) }
            : n \in 0..Len(NameOf) }

\* Environments in which the metadata of one distribution cannot be read.
BrokenEnvironments ==
    UNION { { [e EXCEPT ![i].metadata = Unreadable] :
                i \in {j \in 1..Len(e) : e[j].metadata.requires_dist = <<>>} }
            : e \in PlainEnvironments }

\* Environments with extras: "a" provides extras and requires "b" under
\* markers; "b" is installed and requires nothing.
ExtraLists == {<<>>, <<"x">>, <<"y">>, <<"x", "y">>, <<"y", "x">>}
Markers ==
    {None, Some(TRUE, {})} \cup {Some(FALSE, m) : m \in SUBSET ExtraNames \ {{}}}
MarkedRequirements == {Requirement("b", m) : m \in Markers}
MarkedEnvironments ==
    { << InstalledDist("a", 1, Metadata(rs[1], es)),
         InstalledDist("b", 2, Metadata(<<>>, <<>>)) >> :
        rs \in RequirementLists(1, MaxEdges, MarkedRequirements), es \in ExtraLists }

\* Environments in which two distributions have the same name (the second
\* was installed without removing the first): the versions tell them apart.
DuplicateNames ==
    {<<"a", "a">>, <<"a", "a", "b">>, <<"a", "b", "a">>, <<"a", "b", "b">>}
DuplicateEnvironments ==
    UNION { { [i \in 1..Len(ns) |-> InstalledDist(ns[i], i, Metadata(rs[i], <<>>))] :
                rs \in RequirementLists(Len(ns), MaxEdges - 1, PlainRequirements) }
            : ns \in DuplicateNames }

\* `prune: Vec<PackageName>`: nothing pruned, or one name.
PruneLists == {<<>>} \cup {<<n>> : n \in PackageNames}

\* `depth: u8`: the limits that can cut a path over the names of NameOf, and
\* the widest one.
Depths == (0..(Len(NameOf) - 1)) \cup {U8Max}

----------------------------------------------------------------------------
(***************************************************************************)
(* pip_tree starts with the environment loaded and nothing built.          *)
(***************************************************************************)
NoCall == [dist |-> 0, extra |-> NoExtra]

\* The environments and arguments pip_tree is run on: every argument with
\* the environments without markers; with the two-package environments with
\* extras, the depth limits and prune lists that differ on two packages;
\* default arguments where the metadata cannot be read or a name is
\* installed twice.
Inputs ==
    \/ /\ site_packages \in PlainEnvironments
       /\ depth \in Depths
       /\ prune \in PruneLists
    \/ /\ site_packages \in MarkedEnvironments
       /\ depth \in {0, U8Max}
       /\ prune \in {<<>>, <<"a">>, <<"b">>}
    \/ /\ site_packages \in BrokenEnvironments
       /\ depth = U8Max
       /\ prune = <<>>
    \/ /\ site_packages \in DuplicateEnvironments
       /\ depth = U8Max
       /\ prune = <<>>

Init ==
    /\ Inputs
    /\ no_dedupe \in BOOLEAN
    /\ dist_by_package_name = [n \in PackageNames |-> 0]
    /\ required_packages = {}
    /\ pc = "new"
    /\ root = 1
    /\ visited = {}
    /\ path = <<>>
    /\ lines = <<>>
    /\ stack = <<>>
    /\ call = NoCall
    /\ stdout = <<>>
    /\ stderr = <<>>
    /\ exit = "running"

----------------------------------------------------------------------------
(***************************************************************************)
(* DisplayDependencyGraph::new                                             *)
(***************************************************************************)
\* HashMap::insert in iteration order: a later distribution of the same
\* name replaces the earlier one.
DistByPackageName(sp) ==
    [n \in PackageNames |->
        IF \E i \in 1..Len(sp) : sp[i].name = n
        THEN CHOOSE i \in 1..Len(sp) :
                 sp[i].name = n /\ \A j \in (i + 1)..Len(sp) : sp[j].name # n
        ELSE 0]

\* Variant: a requirement of a distribution on its own name does not count.
RequiredPackagesOfOthers(sp, index) ==
    { r.name : r \in UNION { {q \in Range(sp[i].metadata.requires_dist) :
                                  index[q.name] # 0 /\ q.name # sp[i].name}
                             : i \in 1..Len(sp) } }

\* Variant: only the first requirement record of each distribution counts.
RequiredPackagesFirstOnly(sp, index) ==
    { sp[i].metadata.requires_dist[1].name :
        i \in {j \in 1..Len(sp) :
                  /\ sp[j].metadata.requires_dist # <<>>
                  /\ index[sp[j].metadata.requires_dist[1].name] # 0} }

\* The names of the requirement records, of any marker, whose target is a
\* key of dist_by_package_name.
RequiredPackages(sp, index) ==
    { r.name : r \in UNION { {q \in Range(sp[i].metadata.requires_dist) :
                                  index[q.name] # 0} : i \in 1..Len(sp) } }

\* `.metadata().unwrap()`: a panic ends the process with status 101 and a
\* message on standard error.
Panic ==
    /\ pc' = "panic"
    /\ exit' = "panicked"
    /\ stderr' = Append(stderr, "panicked: called Result::unwrap() on an Err value")

New ==
    /\ pc = "new"
    /\ dist_by_package_name' = DistByPackageName(site_packages)
    /\ IF \E i \in 1..Len(site_packages) : ~site_packages[i].metadata.readable
       THEN /\ Panic
            /\ UNCHANGED required_packages
       ELSE /\ required_packages' =
                   RequiredPackages(site_packages, dist_by_package_name')
            /\ pc' = "render"
            /\ UNCHANGED <<stderr, exit>>
    /\ UNCHANGED <<site_packages, depth, prune, no_dedupe, root, visited, path,
                   lines, stack, call, stdout>>

----------------------------------------------------------------------------
(***************************************************************************)
(* DisplayDependencyGraph::visit                                           *)
(***************************************************************************)
\* The connectors, in ASCII: prefix_top and prefix_rest of the last
\* requirement and of the others.
CornerTop == "+-- "
CornerRest == "    "
BranchTop == "|-- "
BranchRest == "|   "

\* format!("{}{} v{}", extra label, package_name, version), kept in parts;
\* `prefix` are the connectors prepended by the callers, `marker` is the
\* " (#)" or " (*)" suffix ("" for none).
Line(d, extra) ==
    [prefix |-> <<>>, extra |-> extra, name |-> d.name, version |-> d.version,
     marker |-> ""]

Marked(line, marker) == [line EXCEPT !.marker = marker]

\* The distribution of the call being entered.
Callee == site_packages[call.dist]

\* The conditions of visit's early returns, in the order visit tests them.
\* Variant of the depth test: one level late.
DepthCutLate == Len(path) > depth + 1
DepthCut == Len(path) > depth
\* Variant of the prune test: roots only.
PrunedRootOnly == path = <<>> /\ Contains(prune, Callee.name)
Pruned == Contains(prune, Callee.name)
\* Variants of the cycle test: the visited set is tested first; only the
\* caller is compared.
OnPathAfterVisited ==
    Contains(path, Callee.name) /\ ~(Callee.name \in visited /\ ~no_dedupe)
OnPathParentOnly == path # <<>> /\ path[Len(path)] = Callee.name
OnPath == Contains(path, Callee.name)
\* Variants of the visited test: the flag is not read; the flag is read the
\* wrong way round.
SeenIgnoringFlag == Callee.name \in visited
SeenInverted == Callee.name \in visited /\ no_dedupe
Seen == Callee.name \in visited /\ ~no_dedupe

\* The filter without its marker test: every requirement on an installed
\* name is kept.
ExpandedIgnoringMarkers(d) ==
    LET keep(r) == dist_by_package_name[r.name] # 0
    IN SelectSeq(d.metadata.requires_dist, keep)

\* The requirements visit expands: the target is installed and the marker is
\* absent or holds with all the extras the distribution provides.
Expanded(d) ==
    LET keep(r) == /\ dist_by_package_name[r.name] # 0
                   /\ (~r.marker.some
                       \/ Evaluate(r.marker, Range(d.metadata.provides_extras)))
    IN SelectSeq(d.metadata.requires_dist, keep)

\* Variant: the search does not skip the extras used for earlier
\* requirements.
ExtraIndexIgnoringUsed(extras, required_package, used_extras) ==
    LET labels(i) == /\ required_package.marker.some
                     /\ Evaluate(required_package.marker, {extras[i]})
    IN IF \E i \in 1..Len(extras) : labels(i)
       THEN CHOOSE i \in 1..Len(extras) :
                labels(i) /\ \A j \in 1..(i - 1) : ~labels(j)
       ELSE 0

\* `extras.iter().position(..)`: the first provided extra (1-based, 0 for
\* None) that satisfies the requirement's marker on its own and was not used
\* for an earlier requirement of this expansion.
ExtraIndex(extras, required_package, used_extras) ==
    LET labels(i) == /\ required_package.marker.some
                     /\ Evaluate(required_package.marker, {extras[i]})
                     /\ extras[i] \notin used_extras
    IN IF \E i \in 1..Len(extras) : labels(i)
       THEN CHOOSE i \in 1..Len(extras) :
                labels(i) /\ \A j \in 1..(i - 1) : ~labels(j)
       ELSE 0

\* The local variables of a call of visit that is expanding: `index` is the
\* position of the loop over required_packages.
Frame(i) ==
    [dist |-> i,
     lines |-> <<Line(site_packages[i], call.extra)>>,
     extras |-> site_packages[i].metadata.provides_extras,
     required_packages |-> Expanded(site_packages[i]),
     index |-> 1,
     used_extras |-> {}]

\* Variant: only the first line of the child's block gets a segment.
PrefixedFirstOnly(ls, isLast) ==
    [k \in 1..Len(ls) |->
        IF k = 1
        THEN [ls[k] EXCEPT !.prefix =
                 << IF isLast THEN CornerTop ELSE BranchTop >> \o @]
        ELSE ls[k]]

\* The lines of a child with the caller's connectors prepended.
Prefixed(ls, isLast) ==
    [k \in 1..Len(ls) |->
        [ls[k] EXCEPT !.prefix =
            << IF k = 1 THEN (IF isLast THEN CornerTop ELSE BranchTop)
                        ELSE (IF isLast THEN CornerRest ELSE BranchRest) >> \o @]]

\* Variant of the return to an expanding call: the block of the child is
\* put in front of the caller's lines.
ReturnChildFirst(stk, result) ==
    IF stk = <<>>
    THEN /\ lines' = lines \o result
         /\ root' = root + 1
         /\ stack' = stk
    ELSE LET f == stk[Len(stk)]
         IN /\ stack' = [stk EXCEPT ![Len(stk)] =
                    [f EXCEPT !.lines = Prefixed(result,
                                  Len(f.required_packages) = f.index) \o @,
                              !.index = @ + 1]]
            /\ UNCHANGED <<lines, root>>

\* Variant of the return to render: the lines of the root are put in front
\* of the lines collected so far.
ReturnPrepending(stk, result) ==
    IF stk = <<>>
    THEN /\ lines' = result \o lines
         /\ root' = root + 1
         /\ stack' = stk
    ELSE LET f == stk[Len(stk)]
         IN /\ stack' = [stk EXCEPT ![Len(stk)] =
                    [f EXCEPT !.lines = @ \o Prefixed(result,
                                  Len(f.required_packages) = f.index),
                              !.index = @ + 1]]
            /\ UNCHANGED <<lines, root>>

\* A call of visit returns `result` to its caller: to the expanding call on
\* top of `stk`, which prefixes the lines and goes on with its next
\* requirement, or to render, which goes on with the next site_package.
Return(stk, result) ==
    IF stk = <<>>
    THEN /\ lines' = lines \o result
         /\ root' = root + 1
         /\ stack' = stk
    ELSE LET f == stk[Len(stk)]
         IN /\ stack' = [stk EXCEPT ![Len(stk)] =
                    [f EXCEPT !.lines = @ \o Prefixed(result,
                                  Len(f.required_packages) = f.index),
                              !.index = @ + 1]]
            /\ UNCHANGED <<lines, root>>

\* `if path.len() > self.depth { return Vec::new(); }`
VisitDepth ==
    /\ pc = "render" /\ call.dist # 0
    /\ DepthCut
    /\ Return(stack, <<>>)
    /\ call' = NoCall
    /\ UNCHANGED <<site_packages, depth, prune, no_dedupe, dist_by_package_name,
                   required_packages, pc, visited, path, stdout, stderr, exit>>

\* `if self.prune.contains(installed_dist.name()) { return Vec::new(); }`
VisitPrune ==
    /\ pc = "render" /\ call.dist # 0
    /\ ~DepthCut /\ Pruned
    /\ Return(stack, <<>>)
    /\ call' = NoCall
    /\ UNCHANGED <<site_packages, depth, prune, no_dedupe, dist_by_package_name,
                   required_packages, pc, visited, path, stdout, stderr, exit>>

\* `if path.contains(&package_name) { return vec![format!("{} (#)", line)]; }`
VisitCycle ==
    /\ pc = "render" /\ call.dist # 0
    /\ ~DepthCut /\ ~Pruned /\ OnPath
    /\ Return(stack, <<Marked(Line(Callee, call.extra), "#")>>)
    /\ call' = NoCall
    /\ UNCHANGED <<site_packages, depth, prune, no_dedupe, dist_by_package_name,
                   required_packages, pc, visited, path, stdout, stderr, exit>>

\* `if visited.contains(&package_name) && !self.no_dedupe { return ... (*) }`
VisitDedupe ==
    /\ pc = "render" /\ call.dist # 0
    /\ ~DepthCut /\ ~Pruned /\ ~OnPath /\ Seen
    /\ Return(stack, <<Marked(Line(Callee, call.extra), "*")>>)
    /\ call' = NoCall
    /\ UNCHANGED <<site_packages, depth, prune, no_dedupe, dist_by_package_name,
                   required_packages, pc, visited, path, stdout, stderr, exit>>

\* Variant: the name is put into visited only when visited is read, that is
\* with deduplication enabled.
VisitExpandInsertingForDedupe ==
    /\ pc = "render" /\ call.dist # 0
    /\ ~DepthCut /\ ~Pruned /\ ~OnPath /\ ~Seen
    /\ path' = Append(path, Callee.name)
    /\ visited' = IF no_dedupe THEN visited ELSE visited \cup {Callee.name}
    /\ call' = NoCall
    /\ IF Callee.metadata.readable
       THEN /\ stack' = Append(stack, Frame(call.dist))
            /\ stdout' = Append(stdout,
                   [what |-> "provided extras", body |-> Callee.metadata.provides_extras])
            /\ UNCHANGED <<pc, stderr, exit>>
       ELSE /\ Panic
            /\ UNCHANGED <<stack, stdout>>
    /\ UNCHANGED <<site_packages, depth, prune, no_dedupe, dist_by_package_name,
                   required_packages, root, lines>>

\* The call expands: its line, the push on path, the insert into visited, the
\* metadata and the `println!` of the provided extras.
VisitExpand ==
    /\ pc = "render" /\ call.dist # 0
    /\ ~DepthCut /\ ~Pruned /\ ~OnPath /\ ~Seen
    /\ path' = Append(path, Callee.name)
    /\ visited' = visited \cup {Callee.name}
    /\ call' = NoCall
    /\ IF Callee.metadata.readable
       THEN /\ stack' = Append(stack, Frame(call.dist))
            /\ stdout' = Append(stdout,
                   [what |-> "provided extras", body |-> Callee.metadata.provides_extras])
            /\ UNCHANGED <<pc, stderr, exit>>
       ELSE /\ Panic
            /\ UNCHANGED <<stack, stdout>>
    /\ UNCHANGED <<site_packages, depth, prune, no_dedupe, dist_by_package_name,
                   required_packages, root, lines>>

\* One round of `for (index, required_package) in required_packages`: the
\* extra that labels the requirement, and the recursive call.
VisitRequired ==
    /\ pc = "render" /\ call.dist = 0 /\ stack # <<>>
    /\ LET f == stack[Len(stack)]
       IN /\ f.index <= Len(f.required_packages)
          /\ LET required_package == f.required_packages[f.index]
                 extra_index == ExtraIndex(f.extras, required_package, f.used_extras)
             IN /\ stack' = [stack EXCEPT ![Len(stack)].used_extras =
                        IF extra_index # 0 THEN @ \cup {f.extras[extra_index]} ELSE @]
                /\ call' = [dist |-> dist_by_package_name[required_package.name],
                            extra |-> IF extra_index # 0 THEN f.extras[extra_index]
                                      ELSE NoExtra]
    /\ UNCHANGED <<site_packages, depth, prune, no_dedupe, dist_by_package_name,
                   required_packages, pc, root, visited, path, lines, stdout,
                   stderr, exit>>

\* Variant: the call returns its lines without `path.pop()`.
VisitReturnKeepingPath ==
    /\ pc = "render" /\ call.dist = 0 /\ stack # <<>>
    /\ LET f == stack[Len(stack)]
       IN /\ f.index > Len(f.required_packages)
          /\ path' = path
          /\ Return(Pop(stack), f.lines)
    /\ UNCHANGED <<site_packages, depth, prune, no_dedupe, dist_by_package_name,
                   required_packages, pc, visited, call, stdout, stderr, exit>>

\* After the loop: `path.pop(); lines`
VisitReturn ==
    /\ pc = "render" /\ call.dist = 0 /\ stack # <<>>
    /\ LET f == stack[Len(stack)]
       IN /\ f.index > Len(f.required_packages)
          /\ path' = Pop(path)
          /\ Return(Pop(stack), f.lines)
    /\ UNCHANGED <<site_packages, depth, prune, no_dedupe, dist_by_package_name,
                   required_packages, pc, visited, call, stdout, stderr, exit>>

----------------------------------------------------------------------------
(***************************************************************************)
(* DisplayDependencyGraph::render                                          *)
(***************************************************************************)
\* Variant: the loop takes the installed packages from a hash container, so
\* each turn gets some package that no requirement names.
RenderRootAnyOrder ==
    /\ pc = "render" /\ call.dist = 0 /\ stack = <<>>
    /\ root <= Len(site_packages)
    /\ site_packages[root].name \notin required_packages
    /\ \E p \in 1..Len(site_packages) :
          /\ site_packages[p].name \notin required_packages
          /\ call' = [dist |-> p, extra |-> NoExtra]
    /\ path' = <<>>
    /\ UNCHANGED <<site_packages, depth, prune, no_dedupe, dist_by_package_name,
                   required_packages, pc, root, visited, lines, stack, stdout,
                   stderr, exit>>

\* A site_package that no requirement names starts a traversal, with a new
\* path.
RenderRoot ==
    /\ pc = "render" /\ call.dist = 0 /\ stack = <<>>
    /\ root <= Len(site_packages)
    /\ site_packages[root].name \notin required_packages
    /\ call' = [dist |-> root, extra |-> NoExtra]
    /\ path' = <<>>
    /\ UNCHANGED <<site_packages, depth, prune, no_dedupe, dist_by_package_name,
                   required_packages, pc, root, visited, lines, stack, stdout,
                   stderr, exit>>

\* A site_package that is in required_packages is passed over.
RenderSkip ==
    /\ pc = "render" /\ call.dist = 0 /\ stack = <<>>
    /\ root <= Len(site_packages)
    /\ site_packages[root].name \in required_packages
    /\ root' = root + 1
    /\ UNCHANGED <<site_packages, depth, prune, no_dedupe, dist_by_package_name,
                   required_packages, pc, visited, path, lines, stack, call,
                   stdout, stderr, exit>>

----------------------------------------------------------------------------
(***************************************************************************)
(* pip_tree, after render: the tree, the legends, the diagnostics.         *)
(***************************************************************************)
\* Variant: one test for both legends, true when any line has a marker.
ContainsAnyMarker(ls, c) == \E i \in 1..Len(ls) : ls[i].marker # ""

\* `rendered_tree.contains(c)` for c = '*' and c = '#': names, versions and
\* extras hold neither character, so only a marker can.
ContainsMarker(ls, c) == \E i \in 1..Len(ls) : ls[i].marker = c

\* Variant: the rejected design, which gives up when a line carries the
\* cycle marker.
WriteFailingOnCycle(strict, diagnostics) ==
    /\ pc = "render" /\ call.dist = 0 /\ stack = <<>>
    /\ root > Len(site_packages)
    /\ IF ContainsMarker(lines, "#")
       THEN /\ stderr' = Append(stderr,
                   "Failed to print the dependency tree due to cyclic dependency.")
            /\ exit' = "Error"
            /\ UNCHANGED stdout
       ELSE /\ stdout' = Append(stdout, [what |-> "tree", body |-> lines])
            /\ exit' = "Success"
            /\ UNCHANGED stderr
    /\ pc' = "done"
    /\ UNCHANGED <<site_packages, depth, prune, no_dedupe, dist_by_package_name,
                   required_packages, root, visited, path, lines, stack, call>>

\* Variant: an environment without a line to show is reported as a failure.
WriteFailingOnEmpty(strict, diagnostics) ==
    /\ pc = "render" /\ call.dist = 0 /\ stack = <<>>
    /\ root > Len(site_packages)
    /\ IF lines = <<>>
       THEN /\ stderr' = Append(stderr, "error: no packages")
            /\ exit' = "Error"
            /\ UNCHANGED stdout
       ELSE /\ stdout' = Append(stdout, [what |-> "tree", body |-> lines])
            /\ exit' = "Success"
            /\ UNCHANGED stderr
    /\ pc' = "done"
    /\ UNCHANGED <<site_packages, depth, prune, no_dedupe, dist_by_package_name,
                   required_packages, root, visited, path, lines, stack, call>>

\* `diagnostics` is what SitePackages::diagnostics reports for the
\* environment; --strict writes one warning for each.
Write(strict, diagnostics) ==
    /\ pc = "render" /\ call.dist = 0 /\ stack = <<>>
    /\ root > Len(site_packages)
    /\ stdout' = stdout
            \o << [what |-> "tree", body |-> lines] >>
            \o (IF ContainsMarker(lines, "*")
                THEN << [what |-> "(*) Package tree already displayed", body |-> <<>>] >>
                ELSE <<>>)
            \o (IF ContainsMarker(lines, "#")
                THEN << [what |-> "(#) Dependency cycle", body |-> <<>>] >>
                ELSE <<>>)
    /\ stderr' = IF strict
                 THEN stderr \o [k \in 1..Len(diagnostics) |-> "warning"]
                 ELSE stderr
    /\ exit' = "Success"
    /\ pc' = "done"
    /\ UNCHANGED <<site_packages, depth, prune, no_dedupe, dist_by_package_name,
                   required_packages, root, visited, path, lines, stack, call>>

PipTree ==
    \E strict \in BOOLEAN, diagnostics \in {<<>>, <<"diagnostic">>} :
        Write(strict, diagnostics)

----------------------------------------------------------------------------
Next ==
    \/ New
    \/ RenderRoot
    \/ RenderSkip
    \/ VisitDepth
    \/ VisitPrune
    \/ VisitCycle
    \/ VisitDedupe
    \/ VisitExpand
    \/ VisitRequired
    \/ VisitReturn
    \/ PipTree

Spec == Init /\ [][Next]_vars

\* visit and render are ordinary sequential code: the process keeps running
\* until pip_tree returns or panics.
FairSpec == Spec /\ WF_vars(Next)

----------------------------------------------------------------------------
(***************************************************************************)
(* What the properties below speak about.                                  *)
(***************************************************************************)
\* The names of the installed distributions.
Installed == {site_packages[i].name : i \in 1..Len(site_packages)}

\* A call of visit is being entered.
Entering == pc = "render" /\ call.dist # 0
EnteringName == site_packages[call.dist].name

\* The lines collected by the caller of the call being entered, or of the
\* next call: the expanding call on top of the stack, or render.
CallerLines == IF stack = <<>> THEN lines ELSE stack[Len(stack)].lines

\* The calls of visit that are active: the recursion depth.
ActiveCalls == Len(stack) + (IF call.dist # 0 THEN 1 ELSE 0)

\* pip_tree returned; `lines` is then what render returned.
Rendered == pc = "done"

\* The nesting level of a rendered line: roots are level 0.
Level(line) == Len(line.prefix)

\* Some distribution requires itself through one or more installed
\* requirements.
Requires(i, j) ==
    \E r \in Range(site_packages[i].metadata.requires_dist) :
        r.name = site_packages[j].name
RECURSIVE ReachableIn(_, _, _)
ReachableIn(i, j, n) ==
    IF n = 0 THEN FALSE
    ELSE \/ Requires(i, j)
         \/ \E k \in 1..Len(site_packages) :
                Requires(i, k) /\ ReachableIn(k, j, n - 1)
Reaches(i, j) == ReachableIn(i, j, Len(site_packages))
HasCycle == \E i \in 1..Len(site_packages) : Reaches(i, i)

----------------------------------------------------------------------------
(***************************************************************************)
(* C1.  Cycle truncation: whenever visit is entered for a package whose    *)
(* name is already in the current path, and neither the depth check nor    *)
(* the prune check cut the call, the call gives its caller exactly one     *)
(* line, for that package and with the cycle marker, starts no call for a  *)
(* requirement and leaves path and visited alone; and render, once         *)
(* started, returns.                                                       *)
(***************************************************************************)
CycleEntered ==
    /\ Entering
    /\ Contains(path, EnteringName)
    /\ Len(path) <= depth
    /\ ~Contains(prune, EnteringName)

RenderTerminates ==
    /\ [](ActiveCalls <= Cardinality(Installed) + 1)
    /\ [][pc = "render" => pc' \in {"render", "done"}]_vars
    /\ <>(pc \in {"done", "panic"})

\* The recursion is as deep as the bound allows, in a graph with a cycle.
RenderTerminatesWitness ==
    /\ HasCycle
    /\ depth = U8Max
    /\ ActiveCalls = Cardinality(Installed) + 1

(***************************************************************************)
(* C3.  Deduplication: with no_dedupe = false each package name has at     *)
(* most one rendered line without a marker; every call of visit that       *)
(* reaches the visited test for a name that is in visited and not on the   *)
(* path gives its caller exactly one line, with the dedup marker, and      *)
(* expands nothing; in the output a line with the dedup marker is followed *)
(* by no line of a deeper level.                                           *)
(***************************************************************************)
Unmarked(n) == {i \in 1..Len(lines) : lines[i].name = n /\ lines[i].marker = ""}

SeenEntered ==
    /\ Entering
    /\ ~no_dedupe
    /\ EnteringName \in visited
    /\ ~Contains(path, EnteringName)
    /\ Len(path) <= depth
    /\ ~Contains(prune, EnteringName)

Deduplicated ==
    /\ [](~no_dedupe => \A n \in PackageNames : Cardinality(Unmarked(n)) <= 1)
    /\ [](\A i \in 1..(Len(lines) - 1) :
            lines[i].marker = "*" => Level(lines[i + 1]) <= Level(lines[i]))
    /\ [][SeenEntered =>
            /\ Len(CallerLines') = Len(CallerLines) + 1
            /\ CallerLines'[Len(CallerLines')].name = EnteringName
            /\ CallerLines'[Len(CallerLines')].marker = "*"
            /\ Len(stack') = Len(stack)
            /\ call' = NoCall
            /\ path' = path /\ visited' = visited]_vars

\* A package with a rendered requirement was expanded once and is marked at
\* its second encounter, under another parent.
DeduplicatedWitness ==
    /\ Rendered /\ ~no_dedupe
    /\ \E i, j \in 1..Len(lines) :
          /\ i < j /\ j < Len(lines)
          /\ lines[i].name = lines[j].name
          /\ lines[i].marker = "" /\ lines[j].marker = "*"
          /\ Level(lines[i + 1]) > Level(lines[i])
          /\ Level(lines[j]) > 0

(***************************************************************************)
(* C4.  Depth limit: no rendered line has a nesting level greater than the *)
(* depth limit (roots are level 0), so a line at the limit is followed by  *)
(* no line of its requirements and a limit of 0 leaves root lines only; a  *)
(* call of visit entered with a path longer than the limit gives its       *)
(* caller nothing.                                                         *)
(***************************************************************************)
DepthLimited ==
    /\ [](\A i \in 1..Len(lines) : Level(lines[i]) <= depth)
    /\ [][Entering /\ Len(path) > depth =>
            /\ CallerLines' = CallerLines
            /\ Len(stack') = Len(stack)
            /\ call' = NoCall]_vars

\* A line at the limit whose package has an installed requirement that is
\* neither pruned nor rendered below it.
DepthLimitedWitness ==
    /\ Rendered /\ depth = 1 /\ prune = <<>>
    /\ \E i \in 1..Len(lines) :
          /\ Level(lines[i]) = 1 /\ lines[i].marker = ""
          /\ Expanded(site_packages[dist_by_package_name[lines[i].name]]) # <<>>
          /\ (i < Len(lines) => Level(lines[i + 1]) <= 1)

(***************************************************************************)
(* C5.  Prune: the output holds no line for a pruned name, as root or as   *)
(* child, marked or not, and no line for a package that the roots reach    *)
(* only through pruned names.                                              *)
(***************************************************************************)
\* The requirements of the distributions called n that visit expands.
Edges(n) ==
    UNION { {r.name : r \in Range(Expanded(site_packages[i]))} :
            i \in {j \in 1..Len(site_packages) : site_packages[j].name = n} }

\* The names reached from the names S without entering a pruned name.
RECURSIVE ReachedUnpruned(_, _)
ReachedUnpruned(S, n) ==
    IF n = 0 THEN S
    ELSE ReachedUnpruned(
             S \cup {m \in UNION {Edges(k) : k \in S} : ~Contains(prune, m)}, n - 1)

Roots == {n \in Installed : n \notin required_packages}

PruneHidesSubtree ==
    Rendered =>
        \A i \in 1..Len(lines) :
            /\ ~Contains(prune, lines[i].name)
            /\ lines[i].name \in
                   ReachedUnpruned({n \in Roots : ~Contains(prune, n)},
                                   Cardinality(Installed))

\* A rendered package requires the pruned one, whose own requirement is
\* installed and appears nowhere.
PruneHidesSubtreeWitness ==
    /\ Rendered /\ prune # <<>> /\ depth = U8Max
    /\ \E i \in 1..Len(lines) :
          /\ prune[1] \in Edges(lines[i].name)
          /\ \E c \in Edges(prune[1]) :
                /\ c # prune[1]
                /\ \A k \in 1..Len(lines) : lines[k].name # c

(***************************************************************************)
(* C6.  Coverage: when the installed packages have no dependency cycle and *)
(* nothing is pruned, every installed package has a line in the output.    *)
(* Stated for the widest depth limit, so that no line is missing for the   *)
(* depth.                                                                  *)
(***************************************************************************)
HasLine(n) == \E i \in 1..Len(lines) : lines[i].name = n

EveryPackageRendered ==
    (Rendered /\ ~HasCycle /\ prune = <<>> /\ depth = U8Max) =>
        \A n \in Installed : HasLine(n)

(***************************************************************************)
(* C7.  Root selection: a package is rendered as a top-level root if and   *)
(* only if no other installed package has a requirement that visit         *)
(* expands (target installed, marker absent or satisfied) and that targets *)
(* it.  Stated for an empty prune list, so that no root line is missing    *)
(* for the pruning.                                                        *)
(***************************************************************************)
HasRootLine(n) == \E i \in 1..Len(lines) : lines[i].name = n /\ Level(lines[i]) = 0

RootsAreUnrequired ==
    (Rendered /\ prune = <<>>) =>
        \A n \in Installed :
            HasRootLine(n) <=> ~\E m \in Installed \ {n} : n \in Edges(m)

(***************************************************************************)
(* C8.  Rootless cyclic component: when a set of packages forms a cycle    *)
(* and no package outside the set requires any of them, none of them is a  *)
(* root, the output holds no line for any of them, and pip_tree returns    *)
(* Success with a root line for every other package that nothing requires  *)
(* and that is not pruned.                                                 *)
(***************************************************************************)
\* Every member of S reaches every member of S (itself too) inside S, and
\* no installed package outside S requires a member.
RECURSIVE ReachedWithin(_, _, _)
ReachedWithin(T, S, n) ==
    IF n = 0 THEN T
    ELSE ReachedWithin(T \cup (S \cap UNION {Edges(k) : k \in T}), S, n - 1)

RootlessCycle(S) ==
    /\ S # {}
    /\ \A n \in S :
          S \subseteq ReachedWithin(S \cap Edges(n), S, Cardinality(S))
    /\ \A m \in Installed \ S : Edges(m) \cap S = {}

CycleFailure == "Failed to print the dependency tree due to cyclic dependency."

TreeLinesWritten ==
    \E k \in 1..Len(stdout) : stdout[k].what = "tree" /\ stdout[k].body # <<>>

MetadataMissing ==
    \E i \in 1..Len(site_packages) : ~site_packages[i].metadata.readable

MissingMetadataRecovered ==
    MetadataMissing =>
        /\ pc # "panic"
        /\ exit # "panicked"
        /\ Rendered =>
              \A n \in Roots :
                  (~Contains(prune, n)
                   /\ site_packages[dist_by_package_name[n]].metadata.readable)
                      => HasRootLine(n)

(***************************************************************************)
(* C11.  Duplicate identity: when two installed packages have the same     *)
(* name, the index from names to packages keeps the one that comes first   *)
(* in the collection, so every line of a requirement (a line below level   *)
(* 0) shows the version of the first installed package of its name.        *)
(***************************************************************************)
FirstInstalled(n) ==
    CHOOSE i \in 1..Len(site_packages) :
        /\ site_packages[i].name = n
        /\ \A j \in 1..(i - 1) : site_packages[j].name # n

FirstSeenKept ==
    Rendered =>
        \A i \in 1..Len(lines) :
            Level(lines[i]) > 0 =>
                lines[i].version = site_packages[FirstInstalled(lines[i].name)].version

(***************************************************************************)
(* C12.  Tree connectors: among the lines that the requirements of one     *)
(* node produce, the first line of the last requirement that produces      *)
(* lines has the corner connector and the lines below it the blank         *)
(* continuation; the first line of every other requirement has the branch  *)
(* connector and the lines below it the bar.  So every node with a         *)
(* rendered child has exactly one corner child line, and it is the last.   *)
(***************************************************************************)
\* The line at level k that line j stands under (j itself at its own level).
Ancestor(j, k) ==
    CHOOSE i \in 1..j :
        /\ Level(lines[i]) = k
        /\ \A q \in (i + 1)..j : Level(lines[q]) > k

\* No later line is a child of the same node as line i.
LastChild(i) ==
    \A q \in (i + 1)..Len(lines) :
        Level(lines[q]) = Level(lines[i]) =>
            \E h \in (i + 1)..(q - 1) : Level(lines[h]) < Level(lines[i])

ConnectorsFollowRenderedChildren ==
    Rendered =>
        \A j \in 1..Len(lines) :
            \A k \in 1..Level(lines[j]) :
                lines[j].prefix[k] =
                    IF Ancestor(j, k) = j
                    THEN (IF LastChild(j) THEN CornerTop ELSE BranchTop)
                    ELSE (IF LastChild(Ancestor(j, k)) THEN CornerRest ELSE BranchRest)

(***************************************************************************)
(* C13.  Edge filter: a requirement of an expanded package gets a call of  *)
(* visit (a child) exactly when its target is installed and its marker is  *)
(* absent or true under the extras the package itself declares; a          *)
(* requirement on a name that is not installed produces no line and keeps  *)
(* neither the requiring package nor its other requirements from being     *)
(* rendered.                                                               *)
(***************************************************************************)
\* The requirement is on an installed name and holds for the extras of d.
Applies(r, d) ==
    /\ r.name \in Installed
    /\ \/ ~r.marker.some
       \/ r.marker.env
       \/ \E e \in Range(d.metadata.provides_extras) : e \in r.marker.extras

\* The positions in requires_dist of d of the requirements that apply.
RECURSIVE Applying(_, _)
Applying(d, n) ==
    IF n = 0 THEN <<>>
    ELSE IF Applies(d.metadata.requires_dist[n], d)
         THEN Append(Applying(d, n - 1), n)
         ELSE Applying(d, n - 1)

EdgeFilter ==
    /\ [](\A k \in 1..Len(stack) :
            LET d == site_packages[stack[k].dist]
                kept == Applying(d, Len(d.metadata.requires_dist))
            IN /\ Len(stack[k].required_packages) = Len(kept)
               /\ \A i \in 1..Len(kept) :
                     stack[k].required_packages[i] = d.metadata.requires_dist[kept[i]])
    /\ [](\A i \in 1..Len(lines) : lines[i].name \in Installed)
    /\ [][\A n \in PackageNames :
            (Entering' /\ EnteringName' = n /\ stack' # <<>>) =>
                LET f == stack'[Len(stack')]
                IN /\ f.index \in 1..Len(f.required_packages)
                   /\ f.required_packages[f.index].name = n
                   /\ Applies(f.required_packages[f.index], site_packages[f.dist])]_vars
    /\ [][(stack # <<>> /\ ~Entering /\ stack[Len(stack)].index <= Len(stack[Len(stack)].required_packages))
            => Entering']_vars

\* A package with a requirement on a name that is not installed is being
\* expanded, and its requirement on an installed name is rendered.
EdgeFilterWitness ==
    /\ Rendered
    /\ \E i \in 1..Len(lines) :
          /\ i < Len(lines)
          /\ Level(lines[i + 1]) = Level(lines[i]) + 1
          /\ \E r \in Range(site_packages[lines[i].version].metadata.requires_dist) :
                r.name \notin Installed

\* A requirement whose marker no declared extra satisfies is dropped and one
\* whose marker a declared extra satisfies is called.
EdgeFilterMarkerWitness ==
    \E k \in 1..Len(stack) :
        LET d == site_packages[stack[k].dist]
        IN /\ \E r \in Range(d.metadata.requires_dist) : r.name \in Installed /\ ~Applies(r, d)
           /\ \E r \in Range(stack[k].required_packages) : r.marker.some /\ ~r.marker.env

(***************************************************************************)
(* C14.  Extra labelling: every requirement of an expanding package whose  *)
(* marker holds for exactly one of the extras the package declares (and    *)
(* not without an extra) is visited with that extra as its label, also     *)
(* when an earlier requirement of the same package was labelled with the   *)
(* same extra; a requirement without a marker is visited without a label;  *)
(* and the line a call renders carries the label the call was given.       *)
(***************************************************************************)
\* The extras of the expanding call f that its requirement r is gated by.
Gating(f, r) == {e \in Range(f.extras) : e \in r.marker.extras}

ExtraLabelled ==
    /\ [][(stack # <<>> /\ ~Entering /\ Entering') =>
            LET f == stack[Len(stack)]
                r == f.required_packages[f.index]
            IN /\ ~r.marker.some => call'.extra = NoExtra
               /\ (r.marker.some /\ ~r.marker.env /\ Cardinality(Gating(f, r)) = 1)
                     => call'.extra \in Gating(f, r)]_vars
    /\ [][(Entering /\ Len(CallerLines') = Len(CallerLines) + 1) =>
            CallerLines'[Len(CallerLines')].extra = call.extra]_vars
    /\ [][(Entering /\ Len(stack') > Len(stack)) =>
            stack'[Len(stack')].lines[1].extra = call.extra]_vars

(***************************************************************************)
(* C15.  Meaning of the dedup marker: whenever a line carries the dedup    *)
(* marker, an earlier line shows the same package without a marker,        *)
(* followed directly below it by a line for every one of its requirements  *)
(* that visit expands and that is not pruned; for every depth limit.       *)
(***************************************************************************)
\* The lines one level below line i that stand under it.
ChildLines(i) ==
    {q \in (i + 1)..Len(lines) :
        /\ Level(lines[q]) = Level(lines[i]) + 1
        /\ \A h \in (i + 1)..q : Level(lines[h]) > Level(lines[i])}

\* Line i shows its package with all the requirements visit expands for it.
ShownWithRequirements(i) ==
    /\ lines[i].marker = ""
    /\ \A r \in Range(Expanded(site_packages[lines[i].version])) :
          ~Contains(prune, r.name) =>
              \E q \in ChildLines(i) : lines[q].name = r.name

DedupMarkerMeansShown ==
    Rendered =>
        \A j \in 1..Len(lines) :
            lines[j].marker = "*" =>
                \E i \in 1..(j - 1) :
                    /\ lines[i].name = lines[j].name
                    /\ ShownWithRequirements(i)

(***************************************************************************)
(* C16.  Marker exclusivity: a line carries no marker, the cycle marker or *)
(* the dedup marker, never both; no call of visit can return through the   *)
(* cycle test and through the visited test; and a call entered for a name  *)
(* that is on the path and in visited (and not cut by depth or prune)      *)
(* gives its caller one line, which carries the cycle marker.              *)
(***************************************************************************)
OnPathAndSeen ==
    /\ Entering
    /\ Contains(path, EnteringName)
    /\ EnteringName \in visited
    /\ Len(path) <= depth
    /\ ~Contains(prune, EnteringName)

MarkersExclusive ==
    /\ [](\A i \in 1..Len(lines) : lines[i].marker \in {"", "#", "*"})
    /\ [](~(ENABLED VisitCycle /\ ENABLED VisitDedupe))
    /\ [][OnPathAndSeen =>
            /\ Len(CallerLines') = Len(CallerLines) + 1
            /\ \A i \in 1..Len(CallerLines) : CallerLines'[i] = CallerLines[i]
            /\ CallerLines'[Len(CallerLines')].marker = "#"]_vars

\* With deduplication on, a package that was expanded (so it is in visited)
\* is met again below itself and its second line has the cycle marker only.
MarkersExclusiveWitness ==
    /\ Rendered /\ ~no_dedupe
    /\ \E i, j \in 1..Len(lines) :
          /\ i < j
          /\ lines[i].name = lines[j].name
          /\ lines[i].marker = "" /\ lines[j].marker = "#"
          /\ j \in ChildLines(i)

(***************************************************************************)
(* C17.  no_dedupe: when no_dedupe is set no line carries the dedup        *)
(* marker, and every call of visit that is not cut by the depth test, the  *)
(* prune test or the cycle test renders its own unmarked line and then     *)
(* visits its requirements, however often the package was rendered before. *)
(***************************************************************************)
NotCut ==
    /\ Entering
    /\ Len(path) <= depth
    /\ ~Contains(prune, EnteringName)
    /\ ~Contains(path, EnteringName)

NoDedupeExpandsAll ==
    /\ [](no_dedupe =>
            /\ \A i \in 1..Len(lines) : lines[i].marker # "*"
            /\ \A k \in 1..Len(stack) :
                  \A i \in 1..Len(stack[k].lines) : stack[k].lines[i].marker # "*")
    /\ [][(no_dedupe /\ NotCut) =>
            /\ Len(stack') = Len(stack) + 1
            /\ stack'[Len(stack')].dist = call.dist
            /\ Len(stack'[Len(stack')].lines) = 1
            /\ stack'[Len(stack')].lines[1].name = EnteringName
            /\ stack'[Len(stack')].lines[1].marker = ""
            /\ stack'[Len(stack')].index = 1
            /\ stack'[Len(stack')].required_packages =
                  Expanded(site_packages[call.dist])
            /\ path' = Append(path, EnteringName)]_vars
    /\ [](Rendered /\ no_dedupe /\ depth = U8Max =>
            \A i \in 1..Len(lines) :
                lines[i].marker = "" =>
                    \A r \in Range(Expanded(site_packages[lines[i].version])) :
                        ~Contains(prune, r.name) =>
                            \E q \in ChildLines(i) : lines[q].name = r.name)

\* A package with a requirement is rendered twice, each time with its
\* requirement below it.
NoDedupeExpandsAllWitness ==
    /\ Rendered /\ no_dedupe
    /\ \E i, j \in 1..Len(lines) :
          /\ i < j
          /\ lines[i].name = lines[j].name
          /\ lines[i].marker = "" /\ lines[j].marker = ""
          /\ ChildLines(i) # {} /\ ChildLines(j) # {}

(***************************************************************************)
(* C18.  Path uniqueness: in every state of a render the path holds each   *)
(* package name at most once.                                              *)
(***************************************************************************)
PathUnique ==
    \A i, j \in 1..Len(path) : path[i] = path[j] => i = j

\* visit is entered for a name on a path that already holds every
\* installed name.
PathUniqueWitness ==
    /\ Entering
    /\ Len(path) = Len(NameOf)
    /\ Contains(path, EnteringName)
    /\ path[Len(path)] # EnteringName

(***************************************************************************)
(* C19.  Determinism: the rendered lines are a function of the ordered     *)
(* collection of installed packages and of depth, prune and no_dedupe      *)
(* alone: every run of render on the same input ends with the same         *)
(* sequence of lines, the one TreeOf computes from the collection in its   *)
(* order, whatever order the containers built by new() are kept in.        *)
(***************************************************************************)
\* The result of visit for site_packages[i], called with the visited set
\* vis, the path pth and the label extra: its lines and the new visited
\* set.  TreeOfRequired is the loop over the requirements rs from position
\* index on, with the lines and the visited set collected so far in acc.
RECURSIVE TreeOfVisit(_, _, _, _), TreeOfRequired(_, _, _, _, _, _)
TreeOfVisit(i, vis, pth, extra) ==
    LET d == site_packages[i]
        index == DistByPackageName(site_packages)
        keep(r) == /\ index[r.name] # 0
                   /\ (r.marker.some =>
                          Evaluate(r.marker, Range(d.metadata.provides_extras)))
    IN IF Len(pth) > depth \/ Contains(prune, d.name)
       THEN [lines |-> <<>>, visited |-> vis]
       ELSE IF Contains(pth, d.name)
       THEN [lines |-> <<Marked(Line(d, extra), "#")>>, visited |-> vis]
       ELSE IF d.name \in vis /\ ~no_dedupe
       THEN [lines |-> <<Marked(Line(d, extra), "*")>>, visited |-> vis]
       ELSE TreeOfRequired(d.metadata.provides_extras,
                           SelectSeq(d.metadata.requires_dist, keep), 1, {},
                           [lines |-> <<Line(d, extra)>>,
                            visited |-> vis \cup {d.name}],
                           Append(pth, d.name))
TreeOfRequired(extras, rs, index, used, acc, pth) ==
    IF index > Len(rs) THEN acc
    ELSE LET k == ExtraIndex(extras, rs[index], used)
             child == TreeOfVisit(DistByPackageName(site_packages)[rs[index].name],
                                  acc.visited, pth,
                                  IF k # 0 THEN extras[k] ELSE NoExtra)
         IN TreeOfRequired(extras, rs, index + 1,
                           IF k # 0 THEN used \cup {extras[k]} ELSE used,
                           [lines |-> acc.lines \o Prefixed(child.lines, Len(rs) = index),
                            visited |-> child.visited],
                           pth)

\* The result of render from the site_package at position i on.
RECURSIVE TreeOf(_, _)
TreeOf(i, acc) ==
    IF i > Len(site_packages) THEN acc.lines
    ELSE IF site_packages[i].name \in
              RequiredPackages(site_packages, DistByPackageName(site_packages))
         THEN TreeOf(i + 1, acc)
         ELSE LET tree == TreeOfVisit(i, acc.visited, <<>>, NoExtra)
              IN TreeOf(i + 1, [lines |-> acc.lines \o tree.lines,
                                visited |-> tree.visited])

Deterministic ==
    /\ Rendered => lines = TreeOf(1, [lines |-> <<>>, visited |-> {}])
    /\ \A k \in 1..Len(stdout) :
          stdout[k].what = "tree" =>
              stdout[k].body = TreeOf(1, [lines |-> <<>>, visited |-> {}])

\* Two roots were rendered, the second one after the requirements of the
\* first, with a package they share.
DeterministicWitness ==
    /\ Rendered
    /\ \E i, j \in 1..Len(lines) :
          /\ i < j
          /\ Level(lines[i]) = 1 /\ Level(lines[j]) = 1
          /\ lines[i].name = lines[j].name
          /\ \E h \in (i + 1)..(j - 1) : Level(lines[h]) = 0

(***************************************************************************)
(* C20.  Root order: the lines of level 0 appear in the order their        *)
(* packages have in the collection, and the whole block of one root (its   *)
(* line and every line below it) precedes the block of the next: render    *)
(* only ever appends to its lines the complete block of the site_package   *)
(* its loop is at, and the loop only moves forward.                        *)
(***************************************************************************)
\* The position in site_packages of the distribution a line shows (the
\* version of a distribution is its position).
PositionOf(line) ==
    CHOOSE p \in 1..Len(site_packages) :
        site_packages[p].name = line.name /\ site_packages[p].version = line.version

RootsInOrder ==
    /\ [](\A i, j \in 1..Len(lines) :
            (i < j /\ Level(lines[i]) = 0 /\ Level(lines[j]) = 0) =>
                PositionOf(lines[i]) < PositionOf(lines[j]))
    /\ [](lines # <<>> => Level(lines[1]) = 0)
    /\ [][lines' # lines =>
            /\ Len(lines') > Len(lines)
            /\ SubSeq(lines', 1, Len(lines)) = lines
            /\ Level(lines'[Len(lines) + 1]) = 0
            /\ PositionOf(lines'[Len(lines) + 1]) = root
            /\ \A k \in (Len(lines) + 2)..Len(lines') : Level(lines'[k]) > 0
            /\ root' = root + 1]_vars
    /\ [][root' >= root]_vars

\* The first and the third site_package are roots, the second is a
\* requirement of the first and stands in its block.
RootsInOrderWitness ==
    /\ Rendered
    /\ Len(lines) >= 3
    /\ Level(lines[1]) = 0 /\ PositionOf(lines[1]) = 1
    /\ Level(lines[2]) = 1 /\ PositionOf(lines[2]) = 2
    /\ Level(lines[3]) = 0 /\ PositionOf(lines[3]) = 3

(***************************************************************************)
(* C21.  Inverted mode: with invert = true the edges are traversed from    *)
(* the target to the requirer, so for the packages {a requires b} the only *)
(* root is b and a is rendered as the child of b.  pip_tree and            *)
(* DisplayDependencyGraph::new have no invert parameter, so a run of       *)
(* pip_tree is the run for either value of invert.                         *)
(***************************************************************************)
\* The packages {a requires b}, rendered whole.
ARequiresB ==
    /\ Len(site_packages) = 2
    /\ site_packages[1].name = "a" /\ site_packages[2].name = "b"
    /\ site_packages[1].metadata.readable
    /\ site_packages[1].metadata.requires_dist = <<Requirement("b", None)>>
    /\ site_packages[2].metadata.readable
    /\ site_packages[2].metadata.requires_dist = <<>>
    /\ depth = U8Max /\ prune = <<>>

InvertedTraversal ==
    \A invert \in BOOLEAN :
        (invert /\ ARequiresB /\ Rendered) =>
            /\ Len(lines) = 2
            /\ lines[1].name = "b" /\ Level(lines[1]) = 0
            /\ lines[2].name = "a" /\ Level(lines[2]) = 1

(***************************************************************************)
(* C22.  Output purity: standard output holds nothing but the rendered     *)
(* tree, whose lines are the lines of render, and after it the legends;    *)
(* a call of visit that expands its package writes nothing to standard     *)
(* output.                                                                 *)
(***************************************************************************)
Legends == {"(*) Package tree already displayed", "(#) Dependency cycle"}

OutputPure ==
    /\ [](\A k \in 1..Len(stdout) :
            \/ stdout[k].what = "tree" /\ stdout[k].body = lines
            \/ /\ stdout[k].what \in Legends
               /\ \E h \in 1..(k - 1) : stdout[h].what = "tree")
    /\ [][Len(stack') > Len(stack) => stdout' = stdout]_vars

(***************************************************************************)
(* C23.  Empty environment: with no installed package render returns no    *)
(* line, and pip_tree returns Success having written an empty tree, no     *)
(* legend and nothing that reports a failure: until it has returned a step *)
(* is possible, and its steps are new(), then the write that ends it.      *)
(***************************************************************************)
EmptyEnvironmentSucceeds ==
    /\ [](site_packages = <<>> =>
            /\ lines = <<>>
            /\ exit \in {"running", "Success"}
            /\ pc # "panic"
            /\ \A k \in 1..Len(stdout) : stdout[k] = [what |-> "tree", body |-> <<>>]
            /\ \A k \in 1..Len(stderr) : stderr[k] = "warning"
            /\ (Rendered => exit = "Success" /\ Len(stdout) = 1))
    /\ [](site_packages = <<>> /\ ~Rendered => ENABLED (New \/ PipTree))
    /\ [][site_packages = <<>> =>
            \/ pc = "new" /\ pc' = "render"
            \/ pc = "render" /\ pc' = "done" /\ exit' = "Success"]_vars

\* pip_tree has returned for an environment without packages.
EmptyEnvironmentSucceedsWitness ==
    /\ site_packages = <<>>
    /\ Rendered /\ exit = "Success"
    /\ stdout = << [what |-> "tree", body |-> <<>>] >>
    /\ stderr = <<>>

(***************************************************************************)
(* C24.  Legend: pip_tree writes the tree once and only after it the       *)
(* legends: the dedup legend exactly when a rendered line carries the      *)
(* dedup marker and the cycle legend exactly when a rendered line carries  *)
(* the cycle marker, each at most once; a render with no marked line is    *)
(* followed by no legend, and nothing is written after the legends.        *)
(***************************************************************************)
\* The positions in standard output of the entries that are `what`.
Written(what) == {k \in 1..Len(stdout) : stdout[k].what = what}

LegendIffMarked ==
    /\ ~Rendered => \A l \in Legends : Written(l) = {}
    /\ Rendered =>
          /\ Cardinality(Written("tree")) = 1
          /\ \A k \in Written("tree") : stdout[k].body = lines
          /\ \A l \in Legends :
                /\ Cardinality(Written(l)) <= 1
                /\ \A k \in Written(l) : \A t \in Written("tree") : t < k
          /\ Written("(*) Package tree already displayed") # {}
                <=> \E i \in 1..Len(lines) : lines[i].marker = "*"
          /\ Written("(#) Dependency cycle") # {}
                <=> \E i \in 1..Len(lines) : lines[i].marker = "#"
          /\ \A k \in 1..Len(stdout) :
                (\E t \in Written("tree") : t < k) => stdout[k].what \in Legends

\* The tree has lines with the dedup marker and none with the cycle marker,
\* and the dedup legend is the last thing written.
LegendIffMarkedWitness ==
    /\ Rendered
    /\ \E i \in 1..Len(lines) : lines[i].marker = "*"
    /\ \A i \in 1..Len(lines) : lines[i].marker # "#"
    /\ stdout[Len(stdout)].what = "(*) Package tree already displayed"
    /\ stdout[Len(stdout) - 1].what = "tree"

(***************************************************************************)
(* C25.  Path and visited discipline: every call of visit returns with the *)
(* path it was entered with, on each of its five exits: while render runs  *)
(* the path is the names of the calls that are expanding, outermost first, *)
(* so a call is entered with its ancestors on the path and nothing of a    *)
(* sibling branch; the four early exits leave the path alone and the exit  *)
(* after a full expansion removes the one entry the call pushed; visited   *)
(* never loses an element and is not cleared between roots.                *)
(***************************************************************************)
Expanding == [k \in 1..Len(stack) |-> site_packages[stack[k].dist].name]

PathDiscipline ==
    /\ [](pc = "render" => path = Expanding)
    /\ [][(Entering /\ Len(stack') = Len(stack)) =>
            path' = path /\ visited' = visited]_vars
    /\ [][(Entering /\ Len(stack') > Len(stack)) =>
            /\ path' = Append(path, EnteringName)
            /\ visited' = visited \cup {EnteringName}]_vars
    /\ [][Len(stack') < Len(stack) =>
            /\ Len(path) = Len(stack)
            /\ path' = SubSeq(path, 1, Len(path) - 1)
            /\ visited' = visited]_vars
    /\ [][visited \subseteq visited']_vars

\* The second requirement of an expanding call is entered after the first
\* was expanded and has returned: its name is in visited and not on the path.
PathDisciplineWitness ==
    /\ Entering /\ stack # <<>>
    /\ stack[Len(stack)].index = 2
    /\ Len(stack[Len(stack)].lines) >= 3
    /\ visited \ Range(path) # {}
    /\ root > 1

(***************************************************************************)
(* C26.  Pre-order layout: the block of an expanded node is its own line   *)
(* followed by the blocks of its children, one for each requirement visit  *)
(* expands that is neither pruned nor cut by the depth limit, in the order *)
(* of the package's requirement list and each contiguous; a marked line    *)
(* has nothing below it; for the chain {a requires b, b requires c} the    *)
(* output is the three unmarked lines a, b below a, c below b.             *)
(***************************************************************************)
\* The k-th of the lines directly below line i.
NthChild(i, k) ==
    CHOOSE q \in ChildLines(i) : Cardinality({h \in ChildLines(i) : h < q}) = k - 1

\* The requirements of the package of line i whose calls return lines.
Producing(i) ==
    LET unpruned(r) == ~Contains(prune, r.name)
    IN IF Level(lines[i]) + 1 > depth THEN <<>>
       ELSE SelectSeq(Expanded(site_packages[lines[i].version]), unpruned)

Chain ==
    /\ Len(site_packages) = 3
    /\ \A i \in 1..3 : site_packages[i].name = NameOf[i]
    /\ site_packages[1].metadata.requires_dist = <<Requirement("b", None)>>
    /\ site_packages[2].metadata.requires_dist = <<Requirement("c", None)>>
    /\ site_packages[3].metadata.requires_dist = <<>>
    /\ depth = U8Max /\ prune = <<>>

PreOrder ==
    Rendered =>
        /\ lines # <<>> => Level(lines[1]) = 0
        /\ \A i \in 2..Len(lines) : Level(lines[i]) <= Level(lines[i - 1]) + 1
        /\ \A i \in 1..Len(lines) :
              IF lines[i].marker = ""
              THEN /\ Cardinality(ChildLines(i)) = Len(Producing(i))
                   /\ \A k \in 1..Len(Producing(i)) :
                         lines[NthChild(i, k)].name = Producing(i)[k].name
              ELSE ChildLines(i) = {}
        /\ Chain =>
              /\ Len(lines) = 3
              /\ \A i \in 1..3 :
                    /\ lines[i].name = NameOf[i]
                    /\ Level(lines[i]) = i - 1
                    /\ lines[i].marker = ""

\* The chain is rendered.
PreOrderChainWitness ==
    /\ Chain /\ Rendered /\ Len(lines) = 3

\* A node has two children with blocks of their own, the first of more
\* than one line.
PreOrderWitness ==
    /\ Rendered
    /\ \E i \in 1..Len(lines) :
          /\ Cardinality(ChildLines(i)) = 2
          /\ ChildLines(NthChild(i, 1)) # {}
          /\ lines[NthChild(i, 1)].name # lines[NthChild(i, 2)].name

(***************************************************************************)
(* C27.  Prefix depth: a line carries as many prefix segments as the path  *)
(* was long when its node was entered.  The k-th expanding call was        *)
(* entered with a path of length k - 1; a line starts without a segment    *)
(* in the call that renders it, and each return to an expanding call       *)
(* prepends exactly one segment to every line of the returned block, the   *)
(* connector on the first line and the continuation on the others, while   *)
(* the return to render prepends nothing.  So a line that has reached the  *)
(* k-th call with n segments belongs to a node entered with a path of      *)
(* length k - 1 + n, and a line of render with n segments to one entered   *)
(* with a path of length n.                                                *)
(***************************************************************************)
\* Line `new` is line `old` with the one segment seg in front.
Prepended(new, old, seg) == new = [old EXCEPT !.prefix = <<seg>> \o @]

\* Lines `new` are the lines `old` with one segment in front of each: top on
\* the first and rest on the others.
PrependedBlock(new, old, top, rest) ==
    /\ Len(new) = Len(old)
    /\ \A i \in 1..Len(old) :
          Prepended(new[i], old[i], IF i = 1 THEN top ELSE rest)

\* The lines that `after` holds behind the lines `before`.
Added(after, before) == SubSeq(after, Len(before) + 1, Len(after))

PrefixDepth ==
    /\ [](pc = "render" =>
            /\ Len(path) = Len(stack)
            /\ \A k \in 1..Len(stack) :
                  /\ Level(stack[k].lines[1]) = 0
                  /\ \A i \in 2..Len(stack[k].lines) : Level(stack[k].lines[i]) >= 1)
    /\ [][(Entering /\ Len(stack') > Len(stack)) =>
            /\ Len(stack') = Len(path) + 1
            /\ Len(stack'[Len(stack')].lines) = 1
            /\ Level(stack'[Len(stack')].lines[1]) = 0]_vars
    /\ [][(Entering /\ Len(stack') = Len(stack)) =>
            /\ Len(CallerLines') \in {Len(CallerLines), Len(CallerLines) + 1}
            /\ SubSeq(CallerLines', 1, Len(CallerLines)) = CallerLines
            /\ Len(path) = Len(stack)
            /\ \A i \in 1..Len(Added(CallerLines', CallerLines)) :
                  Level(Added(CallerLines', CallerLines)[i]) =
                      (IF stack = <<>> THEN 0 ELSE 1)]_vars
    /\ [][Len(stack') < Len(stack) =>
            LET result == stack[Len(stack)].lines
            IN IF stack' = <<>>
               THEN /\ SubSeq(lines', 1, Len(lines)) = lines
                    /\ Added(lines', lines) = result
               ELSE LET before == stack[Len(stack) - 1].lines
                        after == stack'[Len(stack')].lines
                    IN /\ SubSeq(after, 1, Len(before)) = before
                       /\ \/ PrependedBlock(Added(after, before), result,
                                            CornerTop, CornerRest)
                          \/ PrependedBlock(Added(after, before), result,
                                            BranchTop, BranchRest)]_vars
    /\ [](Rendered =>
            \A i \in 1..Len(lines) :
                \A k \in 1..Level(lines[i]) :
                    /\ \E j \in 1..i : /\ Level(lines[j]) = k - 1
                                       /\ \A q \in (j + 1)..i : Level(lines[q]) > k - 1
                    /\ \E r \in Range(site_packages[lines[Ancestor(i, k - 1)].version]
                                          .metadata.requires_dist) :
                          r.name = lines[Ancestor(i, k)].name)

\* A line two levels down stands in the block of a child that is not the
\* last: the continuation bar from its grandparent, the connector from its
\* parent.
PrefixDepthWitness ==
    /\ Rendered
    /\ \E i \in 1..Len(lines) :
          /\ Level(lines[i]) = 2
          /\ lines[i].prefix[1] = BranchRest
          /\ lines[i].prefix[2] = CornerTop

(***************************************************************************)
(* C28.  Path within visited: at every point of a render every name on the *)
(* path is in visited, so a call entered for a name on the path is entered *)
(* for a name in visited and, with deduplication enabled, only the cycle   *)
(* test tells an ancestor from a package expanded before.                  *)
(***************************************************************************)
PathWithinVisited ==
    /\ Range(path) \subseteq visited
    /\ (Entering /\ Contains(path, EnteringName)) => EnteringName \in visited
    /\ (Entering /\ Contains(path, EnteringName) /\ ~no_dedupe) =>
          ENABLED VisitDepth \/ ENABLED VisitPrune \/ ENABLED VisitCycle

\* visit is entered for an ancestor while another package, expanded before,
\* is in visited and off the path.
PathWithinVisitedWitness ==
    /\ Entering /\ ~no_dedupe
    /\ Len(path) = 2
    /\ Contains(path, EnteringName)
    /\ visited \ Range(path) # {}

(***************************************************************************)
(* C29.  Root rule of the code: render starts a traversal at a             *)
(* site_package exactly when its name is not the target of a requirement   *)
(* record of an installed package, whatever the marker of the record, the  *)
(* package's own records on itself and the records of pruned packages      *)
(* included; so the lines of level 0 are for such names only, and every    *)
(* such name that is not pruned has its line of level 0.                   *)
(***************************************************************************)
\* The installed names some requirement record of an installed package has
\* as its target.
Targets ==
    {n \in Installed :
        \E i \in 1..Len(site_packages) :
            \E r \in Range(site_packages[i].metadata.requires_dist) : r.name = n}

Satisfies(e, r) == r.marker.some /\ (r.marker.env \/ e \in r.marker.extras)

\* A requirement of the expanding call on top of the stack is being visited.
Visiting == stack # <<>> /\ ~Entering /\ Entering'

ExtraLabelsFirstSatisfied ==
    /\ [][Visiting =>
            LET f == stack[Len(stack)]
            IN call'.extra # NoExtra =>
                  /\ call'.extra \notin f.used_extras
                  /\ \A h \in 1..(f.index - 1) :
                        ~Satisfies(call'.extra, f.required_packages[h])]_vars
    /\ [][Len(stack') > Len(stack) => stack'[Len(stack')].used_extras = {}]_vars

(***************************************************************************)
(* C30, amended.  The label of a requirement is the first extra, in the    *)
(* order the package declares its extras, that satisfies the requirement's *)
(* marker on its own and labels no earlier requirement of the same         *)
(* expansion (no label when there is none); so among the children of one   *)
(* expansion no two carry the same label, each extra labelling at most one *)
(* requirement.  The set of used extras starts empty for every expansion   *)
(* and a visit changes that of its own expansion only.                     *)
(***************************************************************************)
\* The positions of the extras of f that can label its requirement r.
Unused(f, r) ==
    {i \in 1..Len(f.extras) :
        Satisfies(f.extras[i], r) /\ f.extras[i] \notin f.used_extras}

\* The labels of the lines directly below the first line of a block.
LabelsBelow(ls) ==
    {i \in 2..Len(ls) : Level(ls[i]) = Level(ls[1]) + 1 /\ ls[i].extra # NoExtra}

ExtraBookkeeping ==
    /\ [](\A k \in 1..Len(stack) :
            /\ \A i, j \in LabelsBelow(stack[k].lines) :
                  stack[k].lines[i].extra = stack[k].lines[j].extra => i = j
            /\ \A i \in LabelsBelow(stack[k].lines) :
                  stack[k].lines[i].extra \in stack[k].used_extras
            /\ stack[k].used_extras \subseteq Range(stack[k].extras))
    /\ [][Len(stack') > Len(stack) => stack'[Len(stack')].used_extras = {}]_vars
    /\ [][Visiting =>
            LET f == stack[Len(stack)]
                r == f.required_packages[f.index]
                first == CHOOSE i \in Unused(f, r) : \A j \in Unused(f, r) : i <= j
            IN /\ call'.extra = IF Unused(f, r) = {} THEN NoExtra ELSE f.extras[first]
               /\ stack'[Len(stack)].used_extras =
                     f.used_extras \cup ({call'.extra} \ {NoExtra})
               /\ \A k \in 1..(Len(stack) - 1) : stack'[k] = stack[k]]_vars
    /\ [](Rendered =>
            \A i \in 1..Len(lines) :
                \A p, q \in ChildLines(i) :
                    (lines[p].extra # NoExtra /\ lines[p].extra = lines[q].extra)
                        => p = q)

\* Two children of one expansion are labelled, the second with an extra
\* that satisfies the first requirement as well.
ExtraBookkeepingWitness ==
    /\ Rendered
    /\ \E i \in 1..Len(lines) :
          \E p, q \in ChildLines(i) :
              /\ p < q
              /\ lines[p].extra # NoExtra /\ lines[q].extra # NoExtra
              /\ Satisfies(lines[q].extra,
                           Expanded(site_packages[lines[i].version])[1])

====
